---- MODULE Spec2Model ----
(***************************************************************************)
(* Scene-transition engine of the repository, in its two implementations: *)
(*   lib : Phase 2/matplotlib-main/lib/matplotlib/transitions.py           *)
(*   sa  : Phase 2/smooth_transitions.py (the standalone module)           *)
(* and the color-theme toggler Phase 1/.../lib/matplotlib/dark_mode.py.    *)
(* Numbers are exact rationals [n, d]; floating-point rounding is modelled *)
(* only for the sine easings.                                              *)
(***************************************************************************)
EXTENDS Integers, Sequences, FiniteSets, TLC

VARIABLES desc, lifecycle, session, nextFrame, delivered, last, result, call,
          live, axes, peer,
          target_fig, original_colors, DARK_COLORS, calls

\* the state of the transition engine, and the state of dark_mode.py
transvars == <<desc, lifecycle, session, nextFrame, delivered, last, result, call,
               live, axes, peer>>

darkvars == <<target_fig, original_colors, DARK_COLORS, calls>>

vars == <<desc, lifecycle, session, nextFrame, delivered, last, result, call,
          live, axes, peer, target_fig, original_colors, DARK_COLORS, calls>>

(***************************************************************************)
(* Bounds of the model.                                                    *)
(***************************************************************************)
\* durations are k/2 seconds, k in -1..MaxDurHalves
MaxDurHalves == 4
\* frame rates are -1..MaxFps, and the default rate of the code
MaxFps == 3
\* progress values of the pure-function checks are k/MaxGrid, k in 0..MaxGrid
MaxGrid == 4
\* a figure has 1..MaxLines lines
MaxLines == 3
\* the caller changes the from/to objects at most MaxMutations times
MaxMutations == 1
\* a figure of dark_mode.py has 0..MaxAxes axes
MaxAxes == 2
\* at most MaxCalls calls of the functions of dark_mode.py
MaxCalls == 4

(***************************************************************************)
(* Exact rational arithmetic (Python floats, without rounding).            *)
(***************************************************************************)
Abs(x) == IF x < 0 THEN -x ELSE x

RECURSIVE GCD(_, _)
GCD(a, b) == IF b = 0 THEN a ELSE GCD(b, a % b)

Rat(n, d) ==
    LET g == GCD(Abs(n), Abs(d))
        s == IF d < 0 THEN -1 ELSE 1
    IN  [n |-> (s * n) \div g, d |-> (s * d) \div g]

Int2Rat(i) == [n |-> i, d |-> 1]
Zero == Int2Rat(0)
One == Int2Rat(1)
Half == Rat(1, 2)

RAdd(a, b) == Rat(a.n * b.d + b.n * a.d, a.d * b.d)
RSub(a, b) == Rat(a.n * b.d - b.n * a.d, a.d * b.d)
RMul(a, b) == Rat(a.n * b.n, a.d * b.d)
RLt(a, b) == a.n * b.d < b.n * a.d
RLe(a, b) == a.n * b.d <= b.n * a.d
RMax(a, b) == IF RLt(a, b) THEN b ELSE a
RMin(a, b) == IF RLt(b, a) THEN b ELSE a
\* Python's int(x): truncation toward zero
PyInt(a) == IF a.n >= 0 THEN a.n \div a.d ELSE -((-a.n) \div a.d)

(***************************************************************************)
(* Easing library.  An easing function is [kind, name]: a static method of *)
(* EasingFunctions ("builtin") or a caller's function ("custom").          *)
(***************************************************************************)
LibEasingNames ==
    {"linear", "ease_in_quad", "ease_out_quad", "ease_in_out_quad",
     "ease_in_cubic", "ease_out_cubic", "ease_in_out_cubic",
     "ease_in_sine", "ease_out_sine", "ease_in_out_sine"}

SaEasingNames ==
    {"linear", "ease_in_quad", "ease_out_quad", "ease_in_out_quad",
     "ease_in_cubic", "ease_out_cubic", "ease_in_out_cubic"}

Builtin(name) == [kind |-> "builtin", name |-> name]
Custom(name) == [kind |-> "custom", name |-> name]

linear(t) == t

ease_in_quad(t) == RMul(t, t)

ease_out_quad(t) == RSub(One, RMul(RSub(One, t), RSub(One, t)))

\* pow(x, k) for the exponents the code uses
Pow2(x) == RMul(x, x)
Pow3(x) == RMul(x, RMul(x, x))

\* mutant: the second half without its division by 2
lib_ease_in_out_quad_undivided(t) ==
    IF RLt(t, Half)
    THEN RMul(Int2Rat(2), RMul(t, t))
    ELSE RSub(One, Pow2(RAdd(RMul(Int2Rat(-2), t), Int2Rat(2))))

lib_ease_in_out_quad(t) ==
    IF RLt(t, Half)
    THEN RMul(Int2Rat(2), RMul(t, t))
    ELSE RSub(One, RMul(Pow2(RAdd(RMul(Int2Rat(-2), t), Int2Rat(2))), Half))

sa_ease_in_out_quad(t) ==
    IF RLt(t, Half)
    THEN RMul(Int2Rat(2), RMul(t, t))
    ELSE RSub(One, RMul(Int2Rat(2), RMul(RSub(One, t), RSub(One, t))))

ease_in_cubic(t) == RMul(t, RMul(t, t))

ease_out_cubic(t) == RSub(One, Pow3(RSub(One, t)))

\* mutant: the first half's formula on the whole of [0,1]
lib_ease_in_out_cubic_unbranched(t) == RMul(Int2Rat(4), RMul(t, RMul(t, t)))

lib_ease_in_out_cubic(t) ==
    IF RLt(t, Half)
    THEN RMul(Int2Rat(4), RMul(t, RMul(t, t)))
    ELSE RSub(One, RMul(Pow3(RAdd(RMul(Int2Rat(-2), t), Int2Rat(2))), Half))

sa_ease_in_out_cubic(t) ==
    IF RLt(t, Half)
    THEN RMul(Int2Rat(4), RMul(t, RMul(t, t)))
    ELSE RSub(One, RMul(Int2Rat(4), Pow3(RSub(One, t))))

(***************************************************************************)
(* The sine easings of transitions.py.  At t = 0 and t = 1 the value is    *)
(* the IEEE binary64 number numpy computes.  A double next to an integer   *)
(* is [base, off]: base + off * 2^-54 / 1000.  Next to 0 every such value  *)
(* is a double; just below 1 the doubles are 2^-53 = 2000 units apart.     *)
(* Inside (0,1) the value is the rational nearest to it with four          *)
(* decimals, from the Taylor series in fixed point (an integer v stands    *)
(* for v / 10000).                                                         *)
(***************************************************************************)
Near(base, off) == [base |-> base, off |-> off]

IsDouble(value) == "off" \in DOMAIN value

\* round to nearest double, ties to even (1.0 is the even neighbour)
FRound(x) ==
    IF x.base = 1 /\ x.off < 0
    THEN Near(1, -2000 * ((-x.off + 999) \div 2000))
    ELSE x

\* a - b in double arithmetic
FSub(a, b) == FRound(Near(a.base - b.base, a.off - b.off))

FxMul(a, b) == (a * b) \div 10000

\* np.pi * t
FxPiTimes(t) == (31416 * t.n) \div t.d

\* the series from the term of degree k on, the terms alternating in sign:
\* the next term is term * x^2 / ((k + 1) * (k + 2))
RECURSIVE TaylorSum(_, _, _, _)
TaylorSum(x, term, k, sign) ==
    IF term = 0 THEN 0
    ELSE sign * term
         + TaylorSum(x, FxMul(FxMul(term, x) \div (k + 1), x) \div (k + 2),
                     k + 2, -sign)

FxCos(x) == TaylorSum(x, 10000, 0, 1)

FxSin(x) == TaylorSum(x, x, 1, 1)

\* np.cos((t * np.pi) / 2): cos(0.0) = 1.0, and at the double nearest to
\* pi/2, 6.123233995736766e-17 = 1.103 * 2^-54
np_cos_half_pi(t) ==
    CASE t = Zero -> Near(1, 0)
      [] t = One -> Near(0, 1103)
      [] OTHER -> Rat(FxCos(FxPiTimes(t) \div 2), 10000)

\* np.sin((t * np.pi) / 2): sin(0.0) = 0.0, and 1.0 at the double nearest to pi/2
np_sin_half_pi(t) ==
    CASE t = Zero -> Near(0, 0)
      [] t = One -> Near(1, 0)
      [] OTHER -> Rat(FxSin(FxPiTimes(t) \div 2), 10000)

\* np.cos(np.pi * t): cos(0.0) = 1.0, and -1.0 at the double nearest to pi
np_cos_pi(t) ==
    CASE t = Zero -> Near(1, 0)
      [] t = One -> Near(-1, 0)
      [] OTHER -> Rat(FxCos(FxPiTimes(t)), 10000)

ease_in_sine(t) ==
    LET c == np_cos_half_pi(t)
    IN  IF IsDouble(c) THEN FSub(Near(1, 0), c) ELSE RSub(One, c)

ease_out_sine(t) == np_sin_half_pi(t)

ease_in_out_sine(t) ==
    LET c == np_cos_pi(t)
        d == FSub(c, Near(1, 0))
    IN  IF IsDouble(c) THEN Near((-d.base) \div 2, (-d.off) \div 2)
        ELSE RMul(RSub(Zero, RSub(c, One)), Half)

SineNames == {"ease_in_sine", "ease_out_sine", "ease_in_out_sine"}

\* a caller's own easing functions: "double" breaks the boundary contract
CustomEasing(name, t) ==
    CASE name = "double" -> RMul(Int2Rat(2), t)
      [] name = "flip" -> RSub(One, t)

\* easing_func(progress)
ApplyEasing(impl, f, t) ==
    IF f.kind = "custom" THEN CustomEasing(f.name, t)
    ELSE CASE f.name = "linear" -> linear(t)
           [] f.name = "ease_in_quad" -> ease_in_quad(t)
           [] f.name = "ease_out_quad" -> ease_out_quad(t)
           [] f.name = "ease_in_out_quad" ->
                IF impl = "lib" THEN lib_ease_in_out_quad(t)
                ELSE sa_ease_in_out_quad(t)
           [] f.name = "ease_in_cubic" -> ease_in_cubic(t)
           [] f.name = "ease_out_cubic" -> ease_out_cubic(t)
           [] f.name = "ease_in_out_cubic" ->
                IF impl = "lib" THEN lib_ease_in_out_cubic(t)
                ELSE sa_ease_in_out_cubic(t)

\* transitions.py: a name is looked up with getattr, default linear; anything
\* else is taken as the function itself
lib_get_easing(easing) ==
    IF easing.kind = "name"
    THEN IF easing.name \in LibEasingNames THEN Builtin(easing.name)
         ELSE Builtin("linear")
    ELSE Custom(easing.name)

\* smooth_transitions.py: getattr on whatever is passed; getattr with a
\* non-string attribute name raises TypeError
sa_get_easing(easing) ==
    IF easing.kind = "name"
    THEN IF easing.name \in SaEasingNames THEN Builtin(easing.name)
         ELSE Builtin("linear")
    ELSE [kind |-> "error", name |-> "TypeError"]

get_easing(impl, easing) ==
    IF impl = "lib" THEN lib_get_easing(easing) ELSE sa_get_easing(easing)

\* EasingFunctions.<name>(t): a rational, or for a sine easing a double next
\* to 0 or 1
EasingValue(impl, name, t) ==
    CASE name = "ease_in_sine" -> ease_in_sine(t)
      [] name = "ease_out_sine" -> ease_out_sine(t)
      [] name = "ease_in_out_sine" -> ease_in_out_sine(t)
      [] OTHER -> ApplyEasing(impl, Builtin(name), t)

(***************************************************************************)
(* Values.  A Python value is a tagged record [k, v]:                      *)
(*   num  : int or float, v a rational                                     *)
(*   arr  : numpy array, v a sequence of num (1-D) or of arr (2-D)         *)
(*   list : list or tuple, v a sequence of values                          *)
(*   str  : string                                                         *)
(*   dict : dictionary, v a function from keys to values                   *)
(*   err  : an exception raised instead of a value, v its class            *)
(***************************************************************************)
Num(r) == [k |-> "num", v |-> r]
NumI(i) == Num(Int2Rat(i))
Arr(s) == [k |-> "arr", v |-> s]
List(s) == [k |-> "list", v |-> s]
Str(s) == [k |-> "str", v |-> s]
Dict(d) == [k |-> "dict", v |-> d]
Err(e) == [k |-> "err", v |-> e]

IsErr(x) == x.k = "err"
AnyErr(s) == \E i \in 1..Len(s) : IsErr(s[i])

\* mutant: the blend taken from the end value
BlendReversed(a, b, p) == RAdd(b, RMul(RSub(a, b), p))

\* start_val + (end_val - start_val) * progress on two numbers
Blend(a, b, p) == RAdd(a, RMul(RSub(b, a), p))

\* the same expression on two numpy arrays: elementwise, a length-1 axis is
\* broadcast, any other shape mismatch raises ValueError
RECURSIVE ArrBlend(_, _, _)
ArrBlend(a, b, p) ==
    IF a.k = "num" /\ b.k = "num" THEN Num(Blend(a.v, b.v, p))
    ELSE IF a.k = "num" THEN
        LET r == [i \in 1..Len(b.v) |-> ArrBlend(a, b.v[i], p)]
        IN  IF AnyErr(r) THEN Err("ValueError") ELSE Arr(r)
    ELSE IF b.k = "num" THEN
        LET r == [i \in 1..Len(a.v) |-> ArrBlend(a.v[i], b, p)]
        IN  IF AnyErr(r) THEN Err("ValueError") ELSE Arr(r)
    ELSE IF Len(a.v) = Len(b.v) THEN
        LET r == [i \in 1..Len(a.v) |-> ArrBlend(a.v[i], b.v[i], p)]
        IN  IF AnyErr(r) THEN Err("ValueError") ELSE Arr(r)
    ELSE IF Len(a.v) = 1 THEN
        LET r == [i \in 1..Len(b.v) |-> ArrBlend(a.v[1], b.v[i], p)]
        IN  IF AnyErr(r) THEN Err("ValueError") ELSE Arr(r)
    ELSE IF Len(b.v) = 1 THEN
        LET r == [i \in 1..Len(a.v) |-> ArrBlend(a.v[i], b.v[1], p)]
        IN  IF AnyErr(r) THEN Err("ValueError") ELSE Arr(r)
    ELSE Err("ValueError")

(***************************************************************************)
(* matplotlib.colors: the color specifications the model draws from.       *)
(***************************************************************************)
ColorTable ==
    [c \in {"red", "blue", "#00000080"} |->
        CASE c = "red" -> <<One, Zero, Zero, One>>
          [] c = "blue" -> <<Zero, Zero, One, One>>
          [] c = "#00000080" -> <<Zero, Zero, Zero, Rat(128, 255)>>]

IsUnit(x) == x.k = "num" /\ RLe(Zero, x.v) /\ RLe(x.v, One)

\* to_rgba(c): a 4-tuple, or ValueError for what is no color
to_rgba(c) ==
    CASE c.k = "str" ->
            IF c.v \in DOMAIN ColorTable
            THEN List([i \in 1..4 |-> Num(ColorTable[c.v][i])])
            ELSE Err("ValueError")
      [] c.k = "list" ->
            IF Len(c.v) \in {3, 4} /\ \A i \in 1..Len(c.v) : IsUnit(c.v[i])
            THEN IF Len(c.v) = 4 THEN c ELSE List(Append(c.v, Num(One)))
            ELSE Err("ValueError")
      [] OTHER -> Err("ValueError")

\* to_rgb(c): to_rgba(c) without its alpha channel
to_rgb(c) ==
    LET rgba == to_rgba(c)
    IN  IF IsErr(rgba) THEN rgba ELSE List(SubSeq(rgba.v, 1, 3))

(***************************************************************************)
(* transitions.py: interpolate_values                                      *)
(***************************************************************************)
\* mutant: the start value kept at exactly 0.5
SwitchInclusive(start_val, end_val, progress) ==
    IF RLe(progress, Half) THEN start_val ELSE end_val

\* the last line of interpolate_values: start or end by the 0.5 threshold
Switch(start_val, end_val, progress) ==
    IF RLt(progress, Half) THEN start_val ELSE end_val

RECURSIVE interpolate_values(_, _, _)
interpolate_values(start_val, end_val, progress) ==
    IF start_val.k = "num" /\ end_val.k = "num"
    THEN Num(Blend(start_val.v, end_val.v, progress))
    ELSE IF start_val.k = "arr" /\ end_val.k = "arr"
    THEN ArrBlend(start_val, end_val, progress)
    ELSE IF start_val.k = "list" /\ end_val.k = "list"
    THEN IF Len(start_val.v) = Len(end_val.v)
         THEN LET r == [i \in 1..Len(start_val.v) |->
                          interpolate_values(start_val.v[i], end_val.v[i], progress)]
              IN  IF AnyErr(r) THEN Err("ValueError") ELSE List(r)
         ELSE Switch(start_val, end_val, progress)
    ELSE IF start_val.k = "str" /\ end_val.k = "str"
    THEN LET start_rgb == to_rgb(start_val)
             end_rgb == to_rgb(end_val)
         IN  IF IsErr(start_rgb) \/ IsErr(end_rgb)
             THEN Switch(start_val, end_val, progress)
             ELSE LET r == interpolate_values(start_rgb, end_rgb, progress)
                  IN  IF IsErr(r) THEN Switch(start_val, end_val, progress)
                      ELSE r
    ELSE Switch(start_val, end_val, progress)

(***************************************************************************)
(* smooth_transitions.py: interpolate_values, interpolate_colors           *)
(***************************************************************************)
\* from_val + (to_val - from_val) * progress, on whatever is passed
sa_interpolate_values(from_val, to_val, progress) ==
    IF from_val.k \in {"num", "arr"} /\ to_val.k \in {"num", "arr"}
    THEN ArrBlend(from_val, to_val, progress)
    ELSE Err("TypeError")

sa_interpolate_colors(from_color, to_color, progress) ==
    LET from_rgba == to_rgba(from_color)
        to_rgba_val == to_rgba(to_color)
    IN  IF IsErr(from_rgba) \/ IsErr(to_rgba_val) THEN Err("ValueError")
        ELSE List([i \in 1..4 |->
                 Num(Blend(from_rgba.v[i].v, to_rgba_val.v[i].v, progress))])

(***************************************************************************)
(* Dictionaries are functions from keys to values.                         *)
(***************************************************************************)
EmptyDict == [key \in {} |-> Zero]

Has(d, key) == key \in DOMAIN d

\* np.array(data) of a list of numbers or of lists
RECURSIVE np_array(_)
np_array(data) ==
    IF data.k = "list" THEN Arr([i \in 1..Len(data.v) |-> np_array(data.v[i])])
    ELSE data

PlotTypes == {"line", "scatter", "bar"}

\* mutant: the scatter branch takes an array of two rows as well
normalize_data_any_pair(data, plot_type) ==
    IF data.k = "dict" THEN data
    ELSE IF plot_type = "line" /\ data.k \in {"list", "arr"}
    THEN Dict([key \in {"y"} |-> np_array(data)])
    ELSE IF plot_type = "scatter" /\ data.k \in {"list", "arr"} /\ Len(data.v) = 2
    THEN Dict([key \in {"x", "y"} |->
            IF key = "x" THEN np_array(data.v[1]) ELSE np_array(data.v[2])])
    ELSE IF plot_type = "bar" /\ data.k \in {"list", "arr"}
    THEN Dict([key \in {"heights"} |-> np_array(data)])
    ELSE Err("ValueError")

\* transitions.py: _normalize_data
normalize_data(data, plot_type) ==
    IF data.k = "dict" THEN data
    ELSE IF plot_type = "line" /\ data.k \in {"list", "arr"}
    THEN Dict([key \in {"y"} |-> np_array(data)])
    ELSE IF plot_type = "scatter" /\ data.k = "list" /\ Len(data.v) = 2
    THEN Dict([key \in {"x", "y"} |->
            IF key = "x" THEN np_array(data.v[1]) ELSE np_array(data.v[2])])
    ELSE IF plot_type = "bar" /\ data.k \in {"list", "arr"}
    THEN Dict([key \in {"heights"} |-> np_array(data)])
    ELSE Err("ValueError")

(***************************************************************************)
(* Transition descriptors: the arguments of one call of smooth_transition  *)
(* or transition_plot_state.                                               *)
(***************************************************************************)
Impls == {"lib", "sa"}

Durations == {Rat(h, 2) : h \in -1..MaxDurHalves}

\* the default frame rate of both implementations
DefaultFps == 30

FrameRates == (-1..MaxFps) \cup {DefaultFps}

EasingArgs ==
    {[kind |-> "name", name |-> n] :
        n \in {"linear", "ease_in_quad", "ease_in_out_quad", "ease_in_out_cubic",
               "bounce"}}
    \cup {[kind |-> "callable", name |-> "double"]}

A2(x, y) == Arr(<<NumI(x), NumI(y)>>)
L2(x, y) == List(<<NumI(x), NumI(y)>>)

\* the forms the from/to data of a smooth_transition call come in: two dicts
\* with the same keys, plain sequences, and two dicts of which only the from
\* one, or only the to one, has the key 'x'
DataForms == {"dict", "seq", "from_only", "to_only"}

\* the 'x' that only one of the two dicts has
OneSidedX == A2(2, 5)

FromData(form, plot_type) ==
    IF form = "dict"
    THEN Dict([key \in {"x", "y", "heights"} |->
                 IF key = "x" THEN A2(0, 1) ELSE A2(1, 3)])
    ELSE IF form = "from_only"
    THEN Dict([key \in {"x", "y", "heights"} |->
                 IF key = "x" THEN OneSidedX ELSE A2(1, 3)])
    ELSE IF form = "to_only"
    THEN Dict([key \in {"y", "heights"} |-> A2(1, 3)])
    ELSE IF plot_type = "scatter" THEN List(<<L2(0, 1), L2(1, 3)>>)
    ELSE L2(1, 3)

ToData(form, plot_type) ==
    IF form = "dict"
    THEN Dict([key \in {"x", "y", "heights"} |->
                 IF key = "x" THEN A2(0, 1) ELSE A2(3, 1)])
    ELSE IF form = "from_only"
    THEN Dict([key \in {"y", "heights"} |-> A2(3, 1)])
    ELSE IF form = "to_only"
    THEN Dict([key \in {"x", "y", "heights"} |->
                 IF key = "x" THEN OneSidedX ELSE A2(3, 1)])
    ELSE IF plot_type = "scatter" THEN List(<<L2(0, 1), L2(3, 1)>>)
    ELSE L2(3, 1)

Descriptors ==
    [impl : Impls, func : {"smooth_transition"}, duration : Durations,
     fps : FrameRates, easing : EasingArgs,
     plot_type : PlotTypes \cup {"pie"}, form : DataForms]
    \cup
    [impl : Impls, func : {"transition_plot_state"}, duration : Durations,
     fps : FrameRates, easing : EasingArgs,
     plot_type : {"figure"}, form : {"figure"}]

(***************************************************************************)
(* Construction.  A session is what the constructor leaves behind: the     *)
(* closure of animate (num_frames, easing_func, the from/to data) or the   *)
(* exception it raised.                                                    *)
(***************************************************************************)
\* capture says how the closure holds the caller's from/to objects:
\*   copy    : new objects built from what was read at construction
\*   shallow : a new dict whose values are the caller's own objects
\*   handle  : the caller's dict, or the live axes, itself
\* from_data and to_data are their values when the constructor ran
Session(nf, ef, fd, td, capture) ==
    [error |-> "none", num_frames |-> nf, easing_func |-> ef,
     from_data |-> fd, to_data |-> td, capture |-> capture]

Raised(e) ==
    [error |-> e, num_frames |-> 0, easing_func |-> Builtin("linear"),
     from_data |-> Dict(EmptyDict), to_data |-> Dict(EmptyDict),
     capture |-> "copy"]

NoSession == Raised("none")

\* mutant: the frame count rounded up instead of truncated
NumFramesRoundedUp(d) ==
    LET x == RMul(d.duration, Int2Rat(d.fps))
    IN  IF x.d = 1 THEN x.n ELSE PyInt(x) + 1

\* int(duration * fps)
NumFrames(d) == PyInt(RMul(d.duration, Int2Rat(d.fps)))

(***************************************************************************)
(* Figures.  A figure is its first axes: the title and the lines, a line   *)
(* being its y data, its line style and its marker.                        *)
(***************************************************************************)
Line(ydata, linestyle, marker) ==
    Dict([key \in {"ydata", "linestyle", "marker"} |->
            CASE key = "ydata" -> ydata
              [] key = "linestyle" -> Str(linestyle)
              [] key = "marker" -> Str(marker)])

Figure(title, lines) ==
    Dict([key \in {"title", "lines"} |->
            IF key = "title" THEN Str(title) ELSE List(lines)])

\* the figures of a transition_plot_state call, with n and m lines
FromFigureOf(n) == Figure("from title", [j \in 1..n |-> Line(A2(j, 3), "-", "o")])
ToFigureOf(m) == Figure("to title", [j \in 1..m |-> Line(A2(3, j), "--", "s")])

FromFigure == FromFigureOf(1)
ToFigure == ToFigureOf(1)

\* transitions.py: _extract_figure_state reads the title and, line by line,
\* the data and the style into a new dict
extract_figure_state(fig) ==
    Dict([key \in {"title", "lines"} |->
            IF key = "title" THEN fig.v["title"]
            ELSE List([j \in 1..Len(fig.v["lines"].v) |->
                         Line(fig.v["lines"].v[j].v["ydata"],
                              fig.v["lines"].v[j].v["linestyle"].v,
                              fig.v["lines"].v[j].v["marker"].v)])])

(***************************************************************************)
(* The caller's from/to objects.  `shared` is the content of the objects   *)
(* that existed when the session was constructed, `handle` what the        *)
(* caller's dict or figure holds now, `rebound` whether the caller has put *)
(* a new object in place of one of them.                                   *)
(***************************************************************************)
Scene(value) == [shared |-> value, handle |-> value, rebound |-> FALSE]

\* mutations counts what the caller has done to them since
Scenes(from_value, to_value) ==
    [from |-> Scene(from_value), to |-> Scene(to_value), mutations |-> 0]

\* the objects a descriptor of the session state machine is called with
LiveOf(d) ==
    IF d.func = "transition_plot_state" THEN Scenes(FromFigure, ToFigure)
    ELSE Scenes(FromData(d.form, d.plot_type), ToData(d.form, d.plot_type))

\* transitions.py: smooth_transition up to its return; _normalize_data copies
\* a dict with data.copy() and a sequence with np.array(data)
lib_smooth_transition(d, from_data, to_data) ==
    LET easing_func == lib_get_easing(d.easing)
        from_data_norm == normalize_data(from_data, d.plot_type)
        to_data_norm == normalize_data(to_data, d.plot_type)
    IN  IF IsErr(from_data_norm) \/ IsErr(to_data_norm) THEN Raised("ValueError")
        ELSE IF d.fps = 0 THEN Raised("ZeroDivisionError")
        ELSE Session(NumFrames(d), easing_func, from_data_norm, to_data_norm,
                     IF from_data.k = "dict" THEN "shallow" ELSE "copy")

\* transitions.py: transition_plot_state up to its return
lib_transition_plot_state(d, fig_from, fig_to) ==
    LET easing_func == lib_get_easing(d.easing)
        from_states == extract_figure_state(fig_from)
        to_states == extract_figure_state(fig_to)
    IN  IF d.fps = 0 THEN Raised("ZeroDivisionError")
        ELSE Session(NumFrames(d), easing_func, from_states, to_states, "copy")

\* data.get(key, [])
sa_get(data, key) == IF Has(data.v, key) THEN data.v[key] ELSE List(<<>>)

\* smooth_transitions.py: smooth_transition up to its return; the first plot
\* of from_data.get('x', []) against from_data.get('y', []) raises ValueError
\* when the two differ in length
sa_smooth_transition(d, from_data, to_data) ==
    LET easing_func == sa_get_easing(d.easing)
    IN  IF easing_func.kind = "error" THEN Raised("TypeError")
        ELSE IF d.plot_type \notin PlotTypes THEN Raised("ValueError")
        ELSE IF from_data.k # "dict" \/ to_data.k # "dict"
        THEN Raised("AttributeError")
        ELSE IF Len(sa_get(from_data, "x").v) # Len(sa_get(from_data, "y").v)
        THEN Raised("ValueError")
        ELSE IF d.fps = 0 THEN Raised("ZeroDivisionError")
        ELSE Session(NumFrames(d), easing_func, from_data, to_data, "handle")

\* smooth_transitions.py: transition_plot_state up to its return
sa_transition_plot_state(d, fig_from, fig_to) ==
    LET easing_func == sa_get_easing(d.easing)
    IN  IF easing_func.kind = "error" THEN Raised("TypeError")
        ELSE IF d.fps = 0 THEN Raised("ZeroDivisionError")
        ELSE Session(NumFrames(d), easing_func, fig_from, fig_to, "handle")

Construct(d, scenes) ==
    LET from_arg == scenes.from.handle
        to_arg == scenes.to.handle
    IN  CASE d.impl = "lib" /\ d.func = "smooth_transition" ->
                lib_smooth_transition(d, from_arg, to_arg)
          [] d.impl = "lib" /\ d.func = "transition_plot_state" ->
                lib_transition_plot_state(d, from_arg, to_arg)
          [] d.impl = "sa" /\ d.func = "smooth_transition" ->
                sa_smooth_transition(d, from_arg, to_arg)
          [] d.impl = "sa" /\ d.func = "transition_plot_state" ->
                sa_transition_plot_state(d, from_arg, to_arg)

\* what the closure reads when a frame is computed
View(ses, scene, captured) ==
    CASE ses.capture = "copy" -> captured
      [] ses.capture = "shallow" -> scene.shared
      [] ses.capture = "handle" -> scene.handle

(***************************************************************************)
(* One frame: the body of animate(frame).                                  *)
(***************************************************************************)
Frame(idx, progress, eased, data) ==
    [idx |-> idx, progress |-> progress, eased |-> eased, data |-> data]

NoFrame == Frame(-1, Zero, Zero, Dict(EmptyDict))

\* mutant: the frame index divided by the frame count
ProgressOverCount(frame, num_frames) ==
    LET progress == IF num_frames > 1 THEN Rat(frame, num_frames) ELSE One
    IN  RMax(Zero, RMin(One, progress))

\* progress = frame / (num_frames - 1) if num_frames > 1 else 1.0, clamped
Progress(frame, num_frames) ==
    LET progress == IF num_frames > 1 THEN Rat(frame, num_frames - 1) ELSE One
    IN  RMax(Zero, RMin(One, progress))

\* transitions.py: the interpolation loop of smooth_transition.animate
lib_current_data(from_data_norm, to_data_norm, eased_progress) ==
    Dict([key \in DOMAIN from_data_norm.v |->
            IF Has(to_data_norm.v, key)
            THEN interpolate_values(from_data_norm.v[key], to_data_norm.v[key],
                                    eased_progress)
            ELSE from_data_norm.v[key]])

\* transitions.py: the plot call of smooth_transition.animate; a key the plot
\* type indexes current_data with and that is not there raises KeyError
lib_required(plot_type) ==
    CASE plot_type = "line" -> {"y"}
      [] plot_type = "scatter" -> {"x", "y"}
      [] plot_type = "bar" -> {"heights"}
      [] OTHER -> {}

lib_plot(plot_type, current_data) ==
    IF lib_required(plot_type) \subseteq DOMAIN current_data.v THEN current_data
    ELSE Err("KeyError")

\* smooth_transitions.py: the properties smooth_transition.animate sets
sa_keys(plot_type) ==
    CASE plot_type = "line" -> {"y", "x", "color", "linewidth"}
      [] plot_type = "scatter" -> {"x", "y", "sizes", "colors"}
      [] plot_type = "bar" -> {"y", "colors"}

\* smooth_transitions.py: the properties the first plot takes from from_data
sa_plotted(plot_type) ==
    CASE plot_type = "line" -> {"x", "y", "color", "linewidth"}
      [] plot_type = "scatter" -> {"x", "y", "colors", "sizes"}
      [] plot_type = "bar" -> {"x", "y", "colors", "width"}

\* the properties of plot_obj after animate: those of the first plot (of
\* first_data, the from_data of that time), the ones in both dicts set to their
\* interpolated values
sa_current_data(plot_type, from_data, to_data, first_data, eased_progress) ==
    LET both == {key \in sa_keys(plot_type) :
                    /\ Has(from_data.v, key) /\ Has(to_data.v, key)
                    /\ key = "colors" =>
                          from_data.v[key].k = "str" /\ to_data.v[key].k = "str"}
        plotted == sa_plotted(plot_type) \cap DOMAIN first_data.v
    IN  Dict([key \in plotted \cup both |->
            IF key \notin both
            THEN IF plot_type = "scatter" /\ key \in {"x", "y"} /\ Has(from_data.v, key)
                 THEN from_data.v[key]
                 ELSE first_data.v[key]
            ELSE IF key \in {"color", "colors"}
            THEN sa_interpolate_colors(from_data.v[key], to_data.v[key],
                                       eased_progress)
            ELSE IF key = "linewidth"
            THEN sa_interpolate_values(from_data.v[key], to_data.v[key],
                                       eased_progress)
            ELSE sa_interpolate_values(np_array(from_data.v[key]),
                                       np_array(to_data.v[key]), eased_progress)])

\* the title a frame of transition_plot_state shows: transitions.py compares
\* the eased progress with 0.5, smooth_transitions.py the progress itself
ShownTitle(impl, from_state, to_state, progress, eased_progress) ==
    LET p == IF impl = "lib" THEN eased_progress ELSE progress
    IN  IF RLt(p, Half) THEN from_state.v["title"] ELSE to_state.v["title"]

Min(a, b) == IF a <= b THEN a ELSE b

\* num_lines = min(len(from_ax_state['lines']), len(to_ax_state['lines']))
NumLines(from_lines, to_lines) == Min(Len(from_lines), Len(to_lines))

\* transitions.py: _render_interpolated_figure, the title and the lines of
\* the first axes
lib_render_interpolated_figure(from_state, to_state, progress) ==
    LET from_lines == from_state.v["lines"].v
        to_lines == to_state.v["lines"].v
        num_lines == NumLines(from_lines, to_lines)
        ydata == [j \in 1..num_lines |->
                    interpolate_values(from_lines[j].v["ydata"],
                                       to_lines[j].v["ydata"], progress)]
    IN  IF AnyErr(ydata) THEN ydata[CHOOSE j \in 1..num_lines : IsErr(ydata[j])]
        ELSE Dict([key \in {"title", "lines"} |->
                IF key = "title"
                THEN ShownTitle("lib", from_state, to_state, progress, progress)
                ELSE List([j \in 1..num_lines |->
                             Line(ydata[j], from_lines[j].v["linestyle"].v,
                                  from_lines[j].v["marker"].v)])])

\* a line smooth_transitions.py plots: the data of a live line, an alpha, and
\* the default line style and marker
FadedLine(line, alpha) ==
    Dict([key \in {"ydata", "linestyle", "marker", "alpha"} |->
            CASE key = "ydata" -> line.v["ydata"]
              [] key = "linestyle" -> Str("-")
              [] key = "marker" -> Str("None")
              [] key = "alpha" -> Num(alpha)])

\* smooth_transitions.py: transition_plot_state.animate, every line of
\* ax_from at alpha 1 - eased_progress, then every line of ax_to at alpha
\* eased_progress
sa_figure_frame(ax_from, ax_to, progress, eased_progress) ==
    LET from_lines == ax_from.v["lines"].v
        to_lines == ax_to.v["lines"].v
        alpha_from == RSub(One, eased_progress)
        alpha_to == eased_progress
    IN  Dict([key \in {"title", "lines"} |->
            IF key = "title"
            THEN ShownTitle("sa", ax_from, ax_to, progress, eased_progress)
            ELSE List([j \in 1..Len(from_lines) |-> FadedLine(from_lines[j], alpha_from)]
                      \o [j \in 1..Len(to_lines) |-> FadedLine(to_lines[j], alpha_to)])])

\* one frame computed from the from/to objects as the closure reads them
animate_on(d, ses, from_data, to_data, frame) ==
    LET progress == Progress(frame, ses.num_frames)
        eased_progress == ApplyEasing(d.impl, ses.easing_func, progress)
    IN  Frame(frame, progress, eased_progress,
          CASE d.impl = "lib" /\ d.func = "transition_plot_state" ->
                  lib_render_interpolated_figure(from_data, to_data, eased_progress)
            [] d.impl = "lib" /\ d.func = "smooth_transition" ->
                  lib_plot(d.plot_type,
                           lib_current_data(from_data, to_data, eased_progress))
            [] d.impl = "sa" /\ d.func = "transition_plot_state" ->
                  sa_figure_frame(from_data, to_data, progress, eased_progress)
            [] d.impl = "sa" /\ d.func = "smooth_transition" ->
                  sa_current_data(d.plot_type, from_data, to_data, ses.from_data,
                                  eased_progress))

animate(d, ses, frame) ==
    animate_on(d, ses, View(ses, live.from, ses.from_data),
               View(ses, live.to, ses.to_data), frame)

(***************************************************************************)
(* The artists on the axes that transitions.py smooth_transition is given. *)
(***************************************************************************)
\* an element plotted by frame `frame` of session id; the bars of a bar plot
\* are one element each
Artist(id, frame, part) ==
    [by |-> id, idx |-> frame.idx, data |-> frame.data, part |-> part]

\* what the plot call of animate appends to original_elements: the line, the
\* scatter collection, or every bar of ax.bar
Plotted(d, id, frame) ==
    IF IsErr(frame.data) THEN {}
    ELSE IF d.plot_type = "bar"
    THEN {Artist(id, frame, j) : j \in 1..Len(frame.data.v["heights"].v)}
    ELSE {Artist(id, frame, 1)}

\* mutant: one list of elements for all sessions
original_elements_shared(id, artists) == artists

\* original_elements, the list of the closure of session id: what it has
\* plotted and not yet removed
original_elements(id, artists) == {elem \in artists : elem.by = id}

\* mutant: the elements of the previous frame are left on the axes
DrawOver(d, id, artists, frame) ==
    IF d.impl = "lib" /\ d.func = "smooth_transition"
    THEN artists \cup Plotted(d, id, frame)
    ELSE artists

\* animate removes the elements of the previous frame and plots the new one;
\* the other functions draw on a figure of their own
Draw(d, id, artists, frame) ==
    IF d.impl = "lib" /\ d.func = "smooth_transition"
    THEN (artists \ original_elements(id, artists)) \cup Plotted(d, id, frame)
    ELSE artists

(***************************************************************************)
(* dark_mode.py.  A figure is its background and its axes; an axes is the  *)
(* colors _store_original_colors reads from it, under the keys of          *)
(* ax_colors.  A patch color is written as the '#rrggbb' string of the     *)
(* RGBA tuple matplotlib keeps; a text color is kept as it was set.  The   *)
(* grid lines, the tick marks and the data colors are left out.            *)
(***************************************************************************)
\* DARK_COLORS as the module defines it
DarkColorsAtImport ==
    [background |-> "#121212", text |-> "#ffffff", grid |-> "#404040",
     spine |-> "#666666", tick |-> "#ffffff", label |-> "#ffffff"]

LIGHT_COLORS ==
    [background |-> "#ffffff", text |-> "#000000", grid |-> "#b0b0b0",
     spine |-> "#000000", tick |-> "#000000", label |-> "#000000"]

\* the red, green and blue channels of a '#rrggbb' color, out of 255
Channels(color) ==
    CASE color = "#ffffff" -> <<255, 255, 255>>
      [] color = "#000000" -> <<0, 0, 0>>
      [] color = "#121212" -> <<18, 18, 18>>
      [] color = "#808080" -> <<128, 128, 128>>

\* brightness = sum(bg_color[:3]) / 3; return brightness < 0.5
is_dark_mode(f) ==
    LET bg_color == Channels(f.facecolor)
    IN  2 * (bg_color[1] + bg_color[2] + bg_color[3]) < 3 * 255

SpineNames == {"left", "right", "top", "bottom"}

\* an axes as plt.subplots() makes it, with its title in the given color
NewAxes(title_color) ==
    [facecolor |-> "#ffffff", xaxis_color |-> "black", yaxis_color |-> "black",
     title_color |-> title_color,
     tick_colors |-> [x |-> <<"black", "black">>, y |-> <<"black", "black">>],
     spine_colors |-> [spine_name \in SpineNames |-> "#000000"]]

NoFigure == [facecolor |-> "#ffffff", axes |-> <<>>]

\* _original_colors without an entry for the figure
NotStored == [stored |-> FALSE]

\* _store_original_colors: nothing if the figure is already a key
store_original_colors(f, cache) ==
    IF cache.stored THEN cache
    ELSE [stored |-> TRUE, fig_facecolor |-> f.facecolor, axes |-> f.axes]

\* the statements that color one axes from a palette (lines 96-114, 128-141
\* and 247-260)
paint_axes(ax, colors) ==
    [facecolor |-> colors.background,
     xaxis_color |-> colors.label, yaxis_color |-> colors.label,
     title_color |-> colors.text,
     tick_colors |-> [x |-> [t \in DOMAIN ax.tick_colors.x |-> colors.tick],
                      y |-> [t \in DOMAIN ax.tick_colors.y |-> colors.tick]],
     spine_colors |-> [spine_name \in DOMAIN ax.spine_colors |-> colors.spine]]

paint_figure(f, colors) ==
    [facecolor |-> colors.background,
     axes |-> [i \in DOMAIN f.axes |-> paint_axes(f.axes[i], colors)]]

apply_dark_mode(f, colors) == paint_figure(f, colors)

\* for tick, color in zip(labels, stored): tick.set_color(color)
restore_ticks(ticks, stored) ==
    [t \in DOMAIN ticks |-> IF t <= Len(stored) THEN stored[t] ELSE ticks[t]]

\* the body of the restoring loop of _apply_light_mode
restore_axes(ax, ax_colors) ==
    [facecolor |-> ax_colors.facecolor,
     xaxis_color |-> ax_colors.xaxis_color, yaxis_color |-> ax_colors.yaxis_color,
     title_color |-> ax_colors.title_color,
     tick_colors |-> [x |-> restore_ticks(ax.tick_colors.x, ax_colors.tick_colors.x),
                      y |-> restore_ticks(ax.tick_colors.y, ax_colors.tick_colors.y)],
     spine_colors |-> [spine_name \in DOMAIN ax.spine_colors |->
                          IF spine_name \in DOMAIN ax_colors.spine_colors
                          THEN ax_colors.spine_colors[spine_name]
                          ELSE ax.spine_colors[spine_name]]]

\* _apply_light_mode: the default light palette if nothing is stored for the
\* figure, else the stored colors, axes by axes as far as zip pairs them
apply_light_mode(f, cache) ==
    IF ~cache.stored THEN paint_figure(f, LIGHT_COLORS)
    ELSE [facecolor |-> cache.fig_facecolor,
          axes |-> [i \in DOMAIN f.axes |->
                      IF i <= Len(cache.axes)
                      THEN restore_axes(f.axes[i], cache.axes[i])
                      ELSE f.axes[i]]]

\* toggle_dark_mode(ax=..., fig=f): ax is the index of the axes passed, 0 if
\* none was; returns the figure and _original_colors as the call leaves them
toggle_dark_mode(ax, f, cache, colors) ==
    IF ax = 0 /\ Len(f.axes) = 0 THEN [fig |-> f, original_colors |-> cache]
    ELSE LET stored == store_original_colors(f, cache)
             is_currently_dark == is_dark_mode(f)
         IN  [fig |-> IF is_currently_dark THEN apply_light_mode(f, stored)
                      ELSE IF ax # 0
                           THEN [f EXCEPT !.axes[ax] = paint_axes(@, colors)]
                           ELSE apply_dark_mode(f, colors),
              original_colors |-> stored]

\* set_dark_mode_colors(background=...), the other arguments at their defaults
set_dark_mode_colors(background) ==
    [DarkColorsAtImport EXCEPT !.background = background]

\* no figure, nothing stored, no call made
DarkIdle ==
    /\ target_fig = NoFigure
    /\ original_colors = NotStored
    /\ DARK_COLORS = DarkColorsAtImport
    /\ calls = <<>>

(***************************************************************************)
(* The session state machine.  FuncAnimation(fig, animate,                 *)
(* frames=num_frames, repeat=False) is the driver: it calls animate once   *)
(* per tick with the next item of range(num_frames) and stops when the     *)
(* range is exhausted.                                                     *)
(*   lifecycle : New (constructor not yet run), Failed (it raised),        *)
(*               Pending, Running, Completed, Cancelled                    *)
(*   result    : what the latest advance() returned                        *)
(***************************************************************************)
NoCall == [pc |-> "idle"]

\* no second session
NoPeer == [lifecycle |-> "None"]

Init ==
    /\ desc \in Descriptors
    /\ lifecycle = "New"
    /\ session = NoSession
    /\ nextFrame = 0
    /\ delivered = <<>>
    /\ last = NoFrame
    /\ result = "none"
    /\ DarkIdle
    /\ call = NoCall
    /\ live = LiveOf(desc)
    /\ axes = {}
    /\ peer = NoPeer

\* createSession(descriptor)
Create ==
    /\ lifecycle = "New"
    /\ session' = Construct(desc, live)
    /\ lifecycle' = IF session'.error = "none" THEN "Pending" ELSE "Failed"
    /\ UNCHANGED <<desc, nextFrame, delivered, last, result, call, live, axes, peer>>
    /\ UNCHANGED darkvars

\* the frames FuncAnimation draws from: range(frames)
FramesLeft(ses, next) == next < ses.num_frames

\* mutant: repeat=True, the range starts over when it is exhausted
NextIndexRepeat(ses, next) == (next + 1) % ses.num_frames

\* the position in range(frames) after one more item; repeat=False
NextIndex(ses, next) == next + 1

\* mutant: a cancelled session still takes ticks
LiveWhenCancelled(state) == state \in {"Pending", "Running", "Cancelled"}

\* advance() and cancel() act on a session that has not ended
Live(state) == state \in {"Pending", "Running"}

\* advance() that delivers a frame
Tick ==
    /\ Live(lifecycle)
    /\ FramesLeft(session, nextFrame)
    /\ last' = animate(desc, session, nextFrame)
    /\ delivered' = Append(delivered, nextFrame)
    /\ nextFrame' = NextIndex(session, nextFrame)
    /\ lifecycle' = IF FramesLeft(session, nextFrame') THEN "Running"
                    ELSE "Completed"
    /\ result' = "frame"
    /\ axes' = Draw(desc, 1, axes, last')
    /\ UNCHANGED <<desc, session, call, live, peer>>
    /\ UNCHANGED darkvars

\* advance() on a session whose range is empty from the start
TickEmpty ==
    /\ Live(lifecycle)
    /\ ~FramesLeft(session, nextFrame)
    /\ lifecycle' = "Completed"
    /\ result' = "SessionEnded"
    /\ UNCHANGED <<desc, session, nextFrame, delivered, last, call, live, axes, peer>>
    /\ UNCHANGED darkvars

\* advance() on a session that has ended
TickEnded ==
    /\ lifecycle \in {"Completed", "Cancelled"}
    /\ result' = "SessionEnded"
    /\ UNCHANGED <<desc, lifecycle, session, nextFrame, delivered, last, call,
                   live, axes, peer>>
    /\ UNCHANGED darkvars

\* cancel()
Cancel ==
    /\ Live(lifecycle)
    /\ lifecycle' = "Cancelled"
    /\ UNCHANGED <<desc, session, nextFrame, delivered, last, result, call,
                   live, axes, peer>>
    /\ UNCHANGED darkvars

Next == Create \/ Tick \/ TickEmpty \/ TickEnded \/ Cancel

Spec == Init /\ [][Next]_vars

(***************************************************************************)
(* The interpolators as pure functions: one call of interpolate_values     *)
(* (both implementations) and interpolate_colors on drawn arguments.       *)
(***************************************************************************)
A3(x, y, z) == Arr(<<NumI(x), NumI(y), NumI(z)>>)
L3(x, y, z) == List(<<NumI(x), NumI(y), NumI(z)>>)
RGBA(r, g, b, a) == List(<<Num(r), Num(g), Num(b), Num(a)>>)

Scalars == {NumI(0), NumI(10), Num(Rat(-3, 2))}
Vectors == {A2(1, 3), A3(1, 2, 3), A3(4, 5, 6), L2(3, 1), L3(1, 2, 3), L3(4, 5, 6)}
ColorStrings == {Str(c) : c \in DOMAIN ColorTable}
ColorTuples == {RGBA(One, Zero, Zero, One), RGBA(Zero, Zero, One, Half)}
Categoricals == {Str("solid"), Str("dashed")}

InterpArgs == Scalars \cup Vectors \cup ColorStrings \cup ColorTuples \cup Categoricals

\* progress values: the grid k/MaxGrid, one step beyond [0,1] on both sides,
\* with 0.5 and the 0.49 just below it
ProgressGrid ==
    {Rat(g, MaxGrid) : g \in -1..MaxGrid + 1} \cup {Half, Rat(49, 100)}

IdleDesc ==
    [impl |-> "lib", func |-> "smooth_transition", duration |-> One,
     fps |-> DefaultFps, easing |-> [kind |-> "name", name |-> "linear"],
     plot_type |-> "line", form |-> "dict"]

InitInterp ==
    /\ desc = IdleDesc
    /\ lifecycle = "New"
    /\ session = NoSession
    /\ nextFrame = 0
    /\ delivered = <<>>
    /\ last = NoFrame
    /\ result = "none"
    /\ DarkIdle
    /\ call \in [pc : {"ready"}, a : InterpArgs, b : InterpArgs, p : ProgressGrid]
    /\ live = LiveOf(desc)
    /\ axes = {}
    /\ peer = NoPeer

\* interpolate_values(a, b, p) and interpolate_colors(a, b, p) return
Interpolate ==
    /\ call.pc = "ready"
    /\ call' = [pc |-> "done", a |-> call.a, b |-> call.b, p |-> call.p,
                lib |-> interpolate_values(call.a, call.b, call.p),
                sa |-> sa_interpolate_values(call.a, call.b, call.p),
                sacol |-> sa_interpolate_colors(call.a, call.b, call.p)]
    /\ UNCHANGED <<desc, lifecycle, session, nextFrame, delivered, last, result,
                   live, axes, peer>>
    /\ UNCHANGED darkvars

NextInterp == Interpolate

SpecInterp == InitInterp /\ [][NextInterp]_vars

(***************************************************************************)
(* Sessions whose from/to objects the caller changes while they run:       *)
(* figures of 1..MaxLines lines, data dicts and plain sequences.           *)
(***************************************************************************)
SceneDescriptors ==
    {d \in Descriptors :
        /\ d.duration = One
        /\ d.fps \in {2, 3}
        /\ d.easing \in {[kind |-> "name", name |-> n] :
                             n \in {"linear", "ease_in_out_quad"}}
        /\ d.plot_type \in {"line", "figure"}
        /\ d.form \in {"dict", "seq", "figure"}}

Counts == 1..MaxLines

InitScene ==
    /\ desc \in SceneDescriptors
    /\ lifecycle = "New"
    /\ session = NoSession
    /\ nextFrame = 0
    /\ delivered = <<>>
    /\ last = NoFrame
    /\ result = "none"
    /\ DarkIdle
    /\ call = NoCall
    /\ IF desc.func = "transition_plot_state"
       THEN \E n \in Counts, m \in Counts :
                live = Scenes(FromFigureOf(n), ToFigureOf(m))
       ELSE live = LiveOf(desc)
    /\ axes = {}
    /\ peer = NoPeer

\* what the caller can do to a from/to object
MutationKinds(value) ==
    IF value.k = "dict" /\ Has(value.v, "lines") THEN {"add_line", "set_title"}
    ELSE IF value.k = "dict" THEN {"in_place", "rebind"}
    ELSE {"in_place"}

\* arr[0] = 9
SetFirst(arr) == [arr EXCEPT !.v[1] = NumI(9)]

Mutated(value, kind) ==
    CASE kind = "in_place" /\ value.k = "dict" ->
            Dict([value.v EXCEPT !["y"] = SetFirst(@)])
      [] kind = "in_place" /\ value.k # "dict" -> SetFirst(value)
      [] kind = "rebind" -> Dict([value.v EXCEPT !["y"] = A2(7, 7)])
      [] kind = "add_line" ->
            Dict([value.v EXCEPT !["lines"] = List(Append(@.v, Line(A2(9, 9), "-", "o")))])
      [] kind = "set_title" -> Dict([value.v EXCEPT !["title"] = Str("changed")])

\* the objects after one change: a new array bound to data['y'] leaves the
\* old array as it was, every other change is made to the object itself
ApplyMutation(scenes, side, kind) ==
    LET scene == scenes[side]
        new_handle == Mutated(scene.handle, kind)
        new_shared == IF kind = "rebind" \/ scene.rebound THEN scene.shared
                      ELSE new_handle
    IN  [scenes EXCEPT ![side] = [shared |-> new_shared, handle |-> new_handle,
                                  rebound |-> scene.rebound \/ kind = "rebind"],
                       !.mutations = @ + 1]

\* the caller changes a from/to object of a session that has not ended
Mutate ==
    /\ Live(lifecycle)
    /\ live.mutations < MaxMutations
    /\ \E side \in {"from", "to"} :
          \E kind \in MutationKinds(live[side].handle) :
              live' = ApplyMutation(live, side, kind)
    /\ UNCHANGED <<desc, lifecycle, session, nextFrame, delivered, last, result,
                   call, axes, peer>>
    /\ UNCHANGED darkvars

NextScene == Create \/ Tick \/ Mutate

SpecScene == InitScene /\ [][NextScene]_vars

(***************************************************************************)
(* Two sessions of transitions.py smooth_transition, created with the same *)
(* axes and the same from/to data, each with its own frame rate and        *)
(* easing, and ticked in any order.  The variables of the state machine    *)
(* above are session 1, the record peer is session 2.                      *)
(***************************************************************************)
PairDescriptors ==
    {d \in Descriptors :
        /\ d.impl = "lib"
        /\ d.func = "smooth_transition"
        /\ d.duration = One
        /\ d.fps \in 1..MaxFps
        /\ d.easing \in {[kind |-> "name", name |-> n] :
                             n \in {"linear", "ease_in_out_quad"}}
        /\ d.plot_type \in PlotTypes
        /\ d.form \in {"dict", "seq"}}

NewPeer(d) ==
    [desc |-> d, lifecycle |-> "New", session |-> NoSession, nextFrame |-> 0,
     delivered |-> <<>>, last |-> NoFrame]

InitPair ==
    /\ desc \in PairDescriptors
    /\ lifecycle = "New"
    /\ session = NoSession
    /\ nextFrame = 0
    /\ delivered = <<>>
    /\ last = NoFrame
    /\ result = "none"
    /\ DarkIdle
    /\ call = NoCall
    /\ live = LiveOf(desc)
    /\ axes = {}
    /\ \E d \in PairDescriptors :
          /\ d.plot_type = desc.plot_type
          /\ d.form = desc.form
          /\ peer = NewPeer(d)

\* the second smooth_transition call
PeerCreate ==
    /\ peer.lifecycle = "New"
    /\ LET ses == Construct(peer.desc, live)
       IN  peer' = [peer EXCEPT !.session = ses,
                                !.lifecycle = IF ses.error = "none" THEN "Pending"
                                              ELSE "Failed"]
    /\ UNCHANGED <<desc, lifecycle, session, nextFrame, delivered, last, result,
                   call, live, axes>>
    /\ UNCHANGED darkvars

\* a tick of the second session
PeerTick ==
    /\ Live(peer.lifecycle)
    /\ FramesLeft(peer.session, peer.nextFrame)
    /\ LET frame == animate(peer.desc, peer.session, peer.nextFrame)
           next == NextIndex(peer.session, peer.nextFrame)
       IN  /\ peer' = [peer EXCEPT !.last = frame,
                                   !.delivered = Append(@, peer.nextFrame),
                                   !.nextFrame = next,
                                   !.lifecycle =
                                       IF FramesLeft(peer.session, next)
                                       THEN "Running" ELSE "Completed"]
           /\ axes' = Draw(peer.desc, 2, axes, frame)
    /\ UNCHANGED <<desc, lifecycle, session, nextFrame, delivered, last, result,
                   call, live>>
    /\ UNCHANGED darkvars

NextPair == Create \/ Tick \/ PeerCreate \/ PeerTick

SpecPair == InitPair /\ [][NextPair]_vars

(***************************************************************************)
(* The easing functions as pure functions: one call of a static method of  *)
(* EasingFunctions, of either implementation, at a point of [0,1].         *)
(***************************************************************************)
\* t = k / (2 * MaxGrid), the quarters, and the progress values of the
\* frames of a session
EasingGrid ==
    {Rat(g, 2 * MaxGrid) : g \in 0..2 * MaxGrid} \cup {Rat(1, 4), Half, Rat(3, 4)}
    \cup {Progress(f, n) : f \in 0..MaxDurHalves * MaxFps, n \in 1..MaxDurHalves * MaxFps}

\* a call of a static method of EasingFunctions, or of the caller's own
\* function that a session of transitions.py was given
EasingCalls ==
    {[pc |-> "ready", impl |-> i, kind |-> "builtin", name |-> n, t |-> t] :
        i \in Impls, n \in LibEasingNames, t \in EasingGrid}
    \cup
    {[pc |-> "ready", impl |-> "lib", kind |-> "custom", name |-> n, t |-> t] :
        n \in {"double", "flip"}, t \in EasingGrid}

InitEasing ==
    /\ desc = IdleDesc
    /\ lifecycle = "New"
    /\ session = NoSession
    /\ nextFrame = 0
    /\ delivered = <<>>
    /\ last = NoFrame
    /\ result = "none"
    /\ DarkIdle
    /\ call \in EasingCalls
    /\ call.impl = "sa" => call.name \in SaEasingNames
    /\ live = LiveOf(desc)
    /\ axes = {}
    /\ peer = NoPeer

\* easing_func(progress) returns
Evaluate ==
    /\ call.pc = "ready"
    /\ call' = [pc |-> "done", impl |-> call.impl, kind |-> call.kind,
                name |-> call.name, t |-> call.t,
                value |-> IF call.kind = "custom"
                          THEN ApplyEasing(call.impl, Custom(call.name), call.t)
                          ELSE EasingValue(call.impl, call.name, call.t)]
    /\ UNCHANGED <<desc, lifecycle, session, nextFrame, delivered, last, result,
                   live, axes, peer>>
    /\ UNCHANGED darkvars

NextEasing == Evaluate

SpecEasing == InitEasing /\ [][NextEasing]_vars

(***************************************************************************)
(* _normalize_data of transitions.py as a pure function: one call, on a    *)
(* dict, a list or tuple, an array, a number or a string, with a plot type *)
(* the code knows or not.                                                  *)
(***************************************************************************)
NormalizeData ==
    {Dict(EmptyDict),
     Dict([key \in {"x", "y"} |-> L3(1, 2, 3)]),
     Dict([key \in {"heights"} |-> A2(1, 3)]),
     List(<<>>), List(<<NumI(7)>>), L2(1, 3), L3(1, 2, 3),
     List(<<L3(1, 2, 3), L3(4, 5, 6)>>),
     List(<<L2(0, 1), L2(1, 3), L2(3, 1)>>),
     A2(1, 3), A3(1, 2, 3), Arr(<<A3(1, 2, 3), A3(4, 5, 6)>>),
     NumI(5), Str("abc")}

NormalizePlotTypes == PlotTypes \cup {"pie", "Line"}

InitNormalize ==
    /\ desc = IdleDesc
    /\ lifecycle = "New"
    /\ session = NoSession
    /\ nextFrame = 0
    /\ delivered = <<>>
    /\ last = NoFrame
    /\ result = "none"
    /\ DarkIdle
    /\ call \in [pc : {"ready"}, data : NormalizeData, plot_type : NormalizePlotTypes]
    /\ live = LiveOf(desc)
    /\ axes = {}
    /\ peer = NoPeer

\* _normalize_data(data, plot_type) returns or raises
Normalize ==
    /\ call.pc = "ready"
    /\ call' = [pc |-> "done", data |-> call.data, plot_type |-> call.plot_type,
                value |-> normalize_data(call.data, call.plot_type)]
    /\ UNCHANGED <<desc, lifecycle, session, nextFrame, delivered, last, result,
                   live, axes, peer>>
    /\ UNCHANGED darkvars

NextNormalize == Normalize

SpecNormalize == InitNormalize /\ [][NextNormalize]_vars

(***************************************************************************)
(* dark_mode.py as a state machine: one figure, and the calls a program    *)
(* makes on it.  calls is the record of the calls made: the function, the  *)
(* axes passed (0 if none), and the figure and whether its colors were     *)
(* stored just before the call.                                            *)
(***************************************************************************)
\* figures on a white or on a black background, the first title black or red
Figures ==
    {[facecolor |-> bg,
      axes |-> [i \in 1..n |-> NewAxes(IF i = 1 THEN tc ELSE "black")]] :
        bg \in {"#ffffff", "#000000"}, n \in 0..MaxAxes, tc \in {"black", "red"}}

\* the backgrounds set_dark_mode_colors is called with
DarkBackgrounds == {"#121212", "#808080"}

InitDark ==
    /\ desc = IdleDesc
    /\ lifecycle = "New"
    /\ session = NoSession
    /\ nextFrame = 0
    /\ delivered = <<>>
    /\ last = NoFrame
    /\ result = "none"
    /\ call = NoCall
    /\ live = LiveOf(desc)
    /\ axes = {}
    /\ peer = NoPeer
    /\ target_fig \in Figures
    /\ original_colors = NotStored
    /\ DARK_COLORS = DarkColorsAtImport
    /\ calls = <<>>

Called(op, ax) ==
    [op |-> op, ax |-> ax, before |-> target_fig, stored |-> original_colors.stored]

\* toggle_dark_mode(fig=fig)
ToggleFig ==
    /\ Len(calls) < MaxCalls
    /\ LET r == toggle_dark_mode(0, target_fig, original_colors, DARK_COLORS)
       IN  /\ target_fig' = r.fig
           /\ original_colors' = r.original_colors
    /\ calls' = Append(calls, Called("toggle_dark_mode", 0))
    /\ UNCHANGED DARK_COLORS
    /\ UNCHANGED transvars

\* toggle_dark_mode(ax=ax) for one of the axes of the figure
ToggleAx ==
    /\ Len(calls) < MaxCalls
    /\ \E ax \in 1..Len(target_fig.axes) :
          /\ LET r == toggle_dark_mode(ax, target_fig, original_colors, DARK_COLORS)
             IN  /\ target_fig' = r.fig
                 /\ original_colors' = r.original_colors
          /\ calls' = Append(calls, Called("toggle_dark_mode", ax))
    /\ UNCHANGED DARK_COLORS
    /\ UNCHANGED transvars

SetDarkModeColors ==
    /\ Len(calls) < MaxCalls
    /\ \E background \in DarkBackgrounds :
          DARK_COLORS' = set_dark_mode_colors(background)
    /\ calls' = Append(calls, Called("set_dark_mode_colors", 0))
    /\ UNCHANGED <<target_fig, original_colors>>
    /\ UNCHANGED transvars

\* reset_to_defaults(): _original_colors.clear()
ResetToDefaults ==
    /\ Len(calls) < MaxCalls
    /\ original_colors' = NotStored
    /\ calls' = Append(calls, Called("reset_to_defaults", 0))
    /\ UNCHANGED <<target_fig, DARK_COLORS>>
    /\ UNCHANGED transvars

NextDark == ToggleFig \/ ToggleAx \/ SetDarkModeColors \/ ResetToDefaults

SpecDark == InitDark /\ [][NextDark]_vars

(***************************************************************************)
(* Claims.                                                                 *)
(***************************************************************************)
Created == lifecycle \notin {"New", "Failed"}

\* floor(duration * frameRate) of the descriptor, for a positive duration
TotalFrames == (desc.duration.n * desc.fps) \div desc.duration.d

PositiveDescriptor == desc.duration.n > 0 /\ desc.fps > 0

LastDelivered == delivered[Len(delivered)]

\* C1: with duration > 0, frame rate > 0 and N = floor(duration * frameRate) > 1,
\* a created transition delivers exactly the frames 0..N-1 (N of them once it
\* has completed), frame 0 at progress 0 and frame N-1 at progress 1.
C1_FrameCount ==
    (PositiveDescriptor /\ TotalFrames > 1 /\ Created) =>
        /\ Len(delivered) <= TotalFrames
        /\ \A i \in 1..Len(delivered) : delivered[i] = i - 1
        /\ lifecycle = "Completed" => Len(delivered) = TotalFrames
        /\ Live(lifecycle) => Len(delivered) < TotalFrames
        /\ Len(delivered) > 0 => last.idx = LastDelivered
        /\ last.idx = 0 => last.progress = Zero
        /\ last.idx = TotalFrames - 1 => last.progress = One

\* duration 2.0 at 30 fps: 60 frames, the last one index 59 at progress 1
C1_Witness ==
    /\ desc.duration = Int2Rat(2) /\ desc.fps = 30
    /\ lifecycle = "Completed"
    /\ Len(delivered) = 60
    /\ last.idx = 59 /\ last.progress = One

\* C2: the lifecycle only moves Pending -> Running -> Completed or Cancelled;
\* Running is entered on the first tick, Completed is reached exactly when frame
\* totalFrames-1 has been delivered, and a Completed or Cancelled session delivers
\* no further frame and never leaves that state.
C2_Lifecycle ==
    [][PositiveDescriptor =>
       /\ <<lifecycle, lifecycle'>> \in
             {<<"New", "Pending">>, <<"New", "Failed">>,
              <<"Pending", "Running">>, <<"Pending", "Completed">>,
              <<"Pending", "Cancelled">>, <<"Running", "Running">>,
              <<"Running", "Completed">>, <<"Running", "Cancelled">>,
              <<"Completed", "Completed">>, <<"Cancelled", "Cancelled">>}
       /\ (lifecycle = "Pending" /\ lifecycle' \in {"Running", "Completed"})
             => delivered' = <<0>>
       /\ lifecycle' = "Completed" <=>
             /\ lifecycle' \notin {"New", "Failed", "Cancelled"}
             /\ Len(delivered') > 0
             /\ delivered'[Len(delivered')] = session'.num_frames - 1
       /\ lifecycle \in {"Completed", "Cancelled"} =>
             /\ lifecycle' = lifecycle
             /\ delivered' = delivered
             /\ last' = last]_vars

\* C3: cancelling a Pending or Running session halts it: the cancel itself leaves
\* the frames delivered and the rendered state as they are, and from then on every
\* advance() returns SessionEnded, delivers nothing and renders nothing.
C3_CancelHalts ==
    [][/\ (lifecycle # "Cancelled" /\ lifecycle' = "Cancelled") =>
             /\ Live(lifecycle)
             /\ delivered' = delivered
             /\ last' = last
       /\ lifecycle = "Cancelled" =>
             /\ lifecycle' = "Cancelled"
             /\ delivered' = delivered
             /\ last' = last
             /\ nextFrame' = nextFrame
             /\ result' = "SessionEnded"]_vars

\* cancel() after frame 10 of 60, then advance(): SessionEnded, frame 10 still shown
C3_Witness ==
    /\ session.num_frames = 60
    /\ lifecycle = "Cancelled"
    /\ result = "SessionEnded"
    /\ Len(delivered) = 11 /\ LastDelivered = 10
    /\ last.idx = 10

C5_SingleFinalFrame ==
    (PositiveDescriptor /\ TotalFrames <= 1 /\ Created) =>
        /\ Len(delivered) <= 1
        /\ lifecycle = "Completed" => Len(delivered) = 1
        /\ Len(delivered) = 1 => last.idx = 0 /\ last.progress = One

\* C6: while a frame is rendered, 0 <= currentFrameIndex < totalFrames, and the
\* progress given to the easing function is currentFrameIndex / (totalFrames - 1)
\* when totalFrames > 1 and 1 otherwise; it lies in [0,1].
C6_ProgressInvariant ==
    last.idx >= 0 =>
        /\ 0 <= last.idx /\ last.idx < session.num_frames
        /\ session.num_frames > 1 =>
              last.progress.n * (session.num_frames - 1) = last.idx * last.progress.d
        /\ session.num_frames <= 1 => last.progress = One
        /\ 0 <= last.progress.n /\ last.progress.n <= last.progress.d

\* the middle frame of three is rendered at progress 1/2
C6_Witness ==
    /\ session.num_frames = 3
    /\ last.idx = 1
    /\ last.progress = Half

\* a descriptor the spec calls invalid
InvalidDescriptor ==
    \/ desc.duration.n <= 0
    \/ desc.fps <= 0
    \/ desc.func = "smooth_transition" /\ desc.plot_type \notin {"line", "scatter", "bar"}

\* C7: a descriptor with duration <= 0, frameRate <= 0 or an unknown plot kind
\* fails at construction: no session is returned and no frame is ever rendered,
\* for dictionary data and for plain sequences alike.
C7_InvalidDescriptorRejected ==
    (InvalidDescriptor /\ lifecycle # "New") =>
        /\ lifecycle = "Failed"
        /\ session.error # "none"
        /\ delivered = <<>>
        /\ last = NoFrame

BuiltinNames(impl) == IF impl = "lib" THEN LibEasingNames ELSE SaEasingNames

\* C8: an easing name that is no built-in easing function still gives a
\* transition (construction fails only where it fails with the name "linear"
\* too) whose every frame has easedProgress = progress; an easing given as a
\* function is accepted and is the function every frame applies.
C8_EasingFallback ==
    /\ (desc.easing.kind = "name" /\ desc.easing.name \notin BuiltinNames(desc.impl)
        /\ lifecycle # "New") =>
            /\ session.error =
                 Construct([desc EXCEPT !.easing = [kind |-> "name", name |-> "linear"]],
                           live).error
            /\ Created => session.easing_func = Builtin("linear")
            /\ last.idx >= 0 => last.eased = last.progress
    /\ (desc.easing.kind = "callable" /\ PositiveDescriptor /\ desc.form # "seq"
        /\ lifecycle # "New") =>
            /\ session.error # "TypeError"
            /\ Created => session.easing_func = Custom(desc.easing.name)
            /\ last.idx >= 0 =>
                  last.eased = CustomEasing(desc.easing.name, last.progress)

\* r = a + (b - a) * p, as an equation between integers
IsBlend(r, a, b, p) ==
    r.n * (a.d * b.d * p.d) = r.d * (a.n * b.d * p.d + (b.n * a.d - a.n * b.d) * p.n)

AllNum(s) == \A i \in 1..Len(s) : s[i].k = "num"

IsBlendSeq(r, a, b, p) ==
    /\ Len(r) = Len(a)
    /\ \A i \in 1..Len(a) : r[i].k = "num" /\ IsBlend(r[i].v, a[i].v, b[i].v, p)

\* C9: interpolate_values of two numbers is a + (b - a) * progress, and of two
\* numeric arrays, or two lists/tuples, of equal length that blend position by
\* position.
C9_LinearBlend ==
    call.pc = "done" =>
        /\ (call.a.k = "num" /\ call.b.k = "num") =>
              /\ call.lib.k = "num" /\ IsBlend(call.lib.v, call.a.v, call.b.v, call.p)
              /\ call.sa.k = "num" /\ IsBlend(call.sa.v, call.a.v, call.b.v, call.p)
        /\ (call.a.k = "arr" /\ call.b.k = "arr" /\ Len(call.a.v) = Len(call.b.v)) =>
              /\ call.lib.k = "arr"
              /\ IsBlendSeq(call.lib.v, call.a.v, call.b.v, call.p)
              /\ call.sa.k = "arr"
              /\ IsBlendSeq(call.sa.v, call.a.v, call.b.v, call.p)
        /\ (call.a.k = "list" /\ call.b.k = "list" /\ Len(call.a.v) = Len(call.b.v)
            /\ AllNum(call.a.v) /\ AllNum(call.b.v)) =>
              /\ call.lib.k = "list"
              /\ IsBlendSeq(call.lib.v, call.a.v, call.b.v, call.p)

\* [1,2,3] to [4,5,6] at 0.5 is [2.5,3.5,4.5]
C9_Witness ==
    /\ call.pc = "done"
    /\ call.a = L3(1, 2, 3) /\ call.b = L3(4, 5, 6) /\ call.p = Half
    /\ call.lib = List(<<Num(Rat(5, 2)), Num(Rat(7, 2)), Num(Rat(9, 2))>>)

IsColor(x) == x \in ColorStrings \cup ColorTuples

SameValue(x, y) == x.k = y.k /\ x = y

SameColor(x, y) ==
    /\ ~IsErr(x) /\ ~IsErr(to_rgba(x))
    /\ to_rgba(x) = to_rgba(y)

\* what the claim expects at the ends: a at progress 0, b at progress 1
EndValue == IF call.p = Zero THEN call.a ELSE call.b

\* C10: for two values of Scalar, Vector or Color kind (names, hex strings or
\* RGBA tuples), interpolating at progress 0 returns a and at progress 1 returns b.
C10_Endpoints ==
    (call.pc = "done" /\ call.p \in {Zero, One}) =>
        /\ (call.a.k = "num" /\ call.b.k = "num") =>
              SameValue(call.lib, EndValue) /\ SameValue(call.sa, EndValue)
        /\ (call.a.k = "arr" /\ call.b.k = "arr" /\ Len(call.a.v) = Len(call.b.v)) =>
              SameValue(call.lib, EndValue) /\ SameValue(call.sa, EndValue)
        /\ (call.a.k = "list" /\ call.b.k = "list" /\ Len(call.a.v) = Len(call.b.v)
            /\ ~IsColor(call.a) /\ ~IsColor(call.b)) =>
              SameValue(call.lib, EndValue)
        /\ (IsColor(call.a) /\ IsColor(call.b)) =>
              SameColor(call.lib, EndValue) /\ SameColor(call.sacol, EndValue)

InUnit(p) == RLe(Zero, p) /\ RLe(p, One)

\* C11: for every value a of any kind (number, array, list/tuple, color
\* string, categorical) and every progress p in [0,1], interpolate_values(a, a, p)
\* returns a (for a color: the same RGBA color).
C11_Identity ==
    (call.pc = "done" /\ SameValue(call.a, call.b) /\ InUnit(call.p)) =>
        IF call.a \in ColorStrings THEN SameColor(call.lib, call.a)
        ELSE SameValue(call.lib, call.a)

\* C12: for two categorical values a and b, interpolate_values returns a for
\* every progress < 0.5 and b for every progress >= 0.5, 0.5 itself included.
C12_HardSwitch ==
    (call.pc = "done" /\ call.a \in Categoricals /\ call.b \in Categoricals) =>
        /\ call.lib.k = "str"
        /\ RLt(call.p, Half) => call.lib.v = call.a.v
        /\ ~RLt(call.p, Half) => call.lib.v = call.b.v

\* "solid" to "dashed" at exactly 0.5 is "dashed"
C12_Witness ==
    /\ call.pc = "done"
    /\ call.a = Str("solid") /\ call.b = Str("dashed") /\ call.p = Half
    /\ call.lib = Str("dashed")

\* r is the RGBA color whose four channels are the blends of a's and b's
IsRGBABlend(r, a, b, p) ==
    /\ r.k = "list"
    /\ Len(r.v) = 4
    /\ \A i \in 1..4 :
          /\ IsUnit(r.v[i])
          /\ IsBlend(r.v[i].v, to_rgba(a).v[i].v, to_rgba(b).v[i].v, p)

\* C13: for two colors and progress in [0,1], interpolate_colors, and
\* interpolate_values on two color strings, return exactly 4 channels, channel
\* i being from[i] + (to[i] - from[i]) * progress and lying in [0,1].
C13_ColorBlend ==
    (call.pc = "done" /\ IsColor(call.a) /\ IsColor(call.b) /\ InUnit(call.p)) =>
        /\ IsRGBABlend(call.sacol, call.a, call.b, call.p)
        /\ (call.a \in ColorStrings /\ call.b \in ColorStrings) =>
              IsRGBABlend(call.lib, call.a, call.b, call.p)

\* two values of one property that cannot be blended
Unblendable(a, b) ==
    \/ a.k \in {"arr", "list"} /\ b.k = a.k /\ Len(a.v) # Len(b.v)
    \/ a.k = "str" /\ b.k = "str" /\ (IsErr(to_rgba(a)) \/ IsErr(to_rgba(b)))

\* C14: for from/to values that cannot be blended (vectors or lists of
\* different length, strings that are no colors) the interpolators return the
\* from value at every progress, and raise nothing.
C14_MismatchKeepsFrom ==
    (call.pc = "done" /\ Unblendable(call.a, call.b) /\ InUnit(call.p)) =>
        /\ SameValue(call.lib, call.a)
        /\ call.a.k = "arr" => SameValue(call.sa, call.a)
        /\ call.a.k = "str" => SameValue(call.sacol, call.a)

\* the value of 'x' in the one dict that has it
PresentX ==
    IF desc.form = "from_only" THEN FromData(desc.form, desc.plot_type).v["x"]
    ELSE ToData(desc.form, desc.plot_type).v["x"]

\* C15: when only the from dict, or only the to dict, has the key 'x', the
\* transition is created and every frame carries 'x' with the value of the dict
\* that has it.
C15_OneSidedProperty ==
    (/\ PositiveDescriptor
     /\ desc.form \in {"from_only", "to_only"}
     /\ desc.plot_type \in PlotTypes
     /\ desc.easing.kind = "name"
     /\ lifecycle # "New") =>
        /\ session.error = "none"
        /\ last.idx >= 0 =>
              /\ last.data.k = "dict"
              /\ Has(last.data.v, "x")
              /\ last.data.v["x"] = PresentX

\* the numbers of lines of the two figures when the session was created
CountFrom == Len(session.from_data.v["lines"].v)
CountTo == Len(session.to_data.v["lines"].v)

\* C16: every frame of a figure-state transition has exactly
\* min(countFrom, countTo) lines.
C16_Truncation ==
    (desc.func = "transition_plot_state" /\ Created /\ last.idx >= 0) =>
        /\ last.data.k = "dict"
        /\ Len(last.data.v["lines"].v) = Min(CountFrom, CountTo)

\* C17: every frame is the frame computed from the from/to objects as they
\* were when the session was created, whatever the caller has done to them
\* since.
C17_CapturedOnce ==
    (Created /\ last.idx >= 0) =>
        last = animate_on(desc, session, session.from_data, session.to_data,
                          last.idx)

\* the elements on the axes that session id has plotted
ElementsOf(id) == {elem \in axes : elem.by = id}

\* what a session driven alone has delivered and left on the axes after the
\* frames 0..k-1: frame k-1 of its own descriptor, and its element alone
AloneAfter(d, frames, frame, elements, id) ==
    /\ \A i \in 1..Len(frames) : frames[i] = i - 1
    /\ Len(frames) = 0 => frame = NoFrame /\ elements = {}
    /\ Len(frames) > 0 =>
          /\ frame = animate_on(d, Construct(d, LiveOf(d)),
                                normalize_data(FromData(d.form, d.plot_type), d.plot_type),
                                normalize_data(ToData(d.form, d.plot_type), d.plot_type),
                                Len(frames) - 1)
          /\ elements = Plotted(d, id, frame)

IsExactly(value, k) ==
    IF IsDouble(value) THEN value = Near(k, 0) ELSE value = Int2Rat(k)

\* C19: every built-in easing function returns exactly 0 at 0 and exactly 1
\* at 1.
C19_BoundaryContract ==
    (call.pc = "done" /\ call.kind = "builtin" /\ call.t \in {Zero, One}) =>
        IsExactly(call.value, IF call.t = Zero THEN 0 ELSE 1)

Two == Int2Rat(2)

\* the closed forms of the claim
Claimed(name, t) ==
    CASE name = "ease_in_out_quad" ->
            IF RLt(t, Half) THEN RMul(Two, Pow2(t))
            ELSE RSub(One, RMul(Two, Pow2(RSub(One, t))))
      [] name = "ease_in_out_cubic" ->
            IF RLt(t, Half) THEN RMul(Int2Rat(4), Pow3(t))
            ELSE RSub(One, RMul(Int2Rat(4), Pow3(RSub(One, t))))
      [] name = "ease_in_quad" -> Pow2(t)
      [] name = "ease_out_quad" -> RSub(One, Pow2(RSub(One, t)))

\* C20: in both implementations, for t in [0,1], ease_in_out_quad(t) is 2t^2
\* below 0.5 and 1 - 2(1-t)^2 from 0.5 on, ease_in_out_cubic(t) is 4t^3 and
\* 1 - 4(1-t)^3, ease_in_quad(t) is t^2 and ease_out_quad(t) is 1 - (1-t)^2.
C20_ClosedForms ==
    (/\ call.pc = "done"
     /\ call.name \in {"ease_in_out_quad", "ease_in_out_cubic", "ease_in_quad",
                       "ease_out_quad"}) =>
        /\ call.value = Claimed(call.name, call.t)
        /\ (call.name = "ease_in_out_quad" /\ call.t = Rat(1, 4)) =>
              call.value = Rat(1, 8)
        /\ (call.name = "ease_in_out_quad" /\ call.t = Rat(3, 4)) =>
              call.value = Rat(7, 8)
        /\ (call.name = "ease_in_out_cubic" /\ call.t = Half) => call.value = Half
        /\ (call.name = "ease_in_quad" /\ call.t = Half) => call.value = Rat(1, 4)
        /\ (call.name = "ease_out_quad" /\ call.t = Half) => call.value = Rat(3, 4)

\* transitions.py: ease_in_out_quad(0.75) = 0.875
C20_Witness ==
    /\ call.pc = "done"
    /\ call.impl = "lib" /\ call.name = "ease_in_out_quad"
    /\ call.t = Rat(3, 4)
    /\ call.value = Rat(7, 8)

\* the value, a rational or a double, lies in [0,1]
InUnitValue(value) ==
    IF IsDouble(value)
    THEN \/ value.base = 0 /\ value.off >= 0
         \/ value.base = 1 /\ value.off <= 0
    ELSE InUnit(value)

\* C21: for every built-in easing function and every progress p in [0,1] the
\* eased progress lies in [0,1]; an eased progress outside [0,1] occurs only
\* with a caller's own easing function.
C21_EasedInUnit ==
    call.pc = "done" =>
        /\ InUnit(call.t)
        /\ call.kind = "builtin" => InUnitValue(call.value)
        /\ ~InUnitValue(call.value) => call.kind = "custom"

\* transitions.py: ease_in_sine(0.5) = 1 - cos(pi/4), 0.2929 to four decimals
C21_Witness ==
    /\ call.pc = "done"
    /\ call.impl = "lib" /\ call.kind = "builtin" /\ call.name = "ease_in_sine"
    /\ call.t = Half
    /\ call.value = Rat(2929, 10000)

\* the categorical policy: a while progress < 0.5, b from 0.5 on
Categorical(a, b, progress) == IF RLt(progress, Half) THEN a ELSE b

\* C22: in every frame of a figure-state transition of transitions.py the line
\* style and the marker of each paired curve are the from curve's while the
\* frame's progress is below 0.5 and the to curve's from 0.5 on.
C22_CurveCategoricals ==
    (/\ desc.impl = "lib" /\ desc.func = "transition_plot_state"
     /\ PositiveDescriptor /\ Created /\ last.idx >= 0) =>
        /\ last.data.k = "dict"
        /\ \A j \in 1..Len(last.data.v["lines"].v) :
              LET shown == last.data.v["lines"].v[j]
                  from_line == session.from_data.v["lines"].v[j]
                  to_line == session.to_data.v["lines"].v[j]
              IN  /\ shown.v["linestyle"] =
                        Categorical(from_line.v["linestyle"], to_line.v["linestyle"],
                                    last.eased)
                  /\ shown.v["marker"] =
                        Categorical(from_line.v["marker"], to_line.v["marker"],
                                    last.eased)

\* the latest call, and the figure it found
LastCall == calls[Len(calls)]

ToggledFigure(c) ==
    c.op = "toggle_dark_mode" /\ c.ax = 0 /\ Len(c.before.axes) >= 1

\* C23: two toggle_dark_mode(fig=fig) calls in a row on a figure with at
\* least one axes leave the figure background and every axes' background,
\* axis-label, title, tick-label and spine colors as they were before the
\* first of the two.
C23_ToggleTwiceRestores ==
    (/\ Len(calls) >= 2
     /\ ToggledFigure(calls[Len(calls) - 1])
     /\ ToggledFigure(LastCall)) =>
        target_fig = calls[Len(calls) - 1].before

\* C24: a toggle_dark_mode call on a figure with at least one axes made in
\* light mode leaves the figure in dark mode, and one made in dark mode
\* leaves it in light mode.
C24_ModeAlternates ==
    (/\ Len(calls) >= 1
     /\ LastCall.op = "toggle_dark_mode"
     /\ Len(LastCall.before.axes) >= 1) =>
        is_dark_mode(target_fig) # is_dark_mode(LastCall.before)

\* C25: toggle_dark_mode(ax=ax) changes neither the figure background nor
\* any other axes of the figure.
C25_OnlyThatAxes ==
    (/\ Len(calls) >= 1
     /\ LastCall.op = "toggle_dark_mode"
     /\ LastCall.ax # 0) =>
        /\ target_fig.facecolor = LastCall.before.facecolor
        /\ \A j \in DOMAIN target_fig.axes :
              j # LastCall.ax => target_fig.axes[j] = LastCall.before.axes[j]

\* C30: a toggle_dark_mode call that finds the figure in dark mode with no
\* original colors stored for it applies LIGHT_COLORS to the figure and its
\* axes and leaves the figure in light mode.
C30_DefaultLightPalette ==
    (/\ Len(calls) >= 1
     /\ LastCall.op = "toggle_dark_mode"
     /\ Len(LastCall.before.axes) >= 1
     /\ is_dark_mode(LastCall.before)
     /\ ~LastCall.stored) =>
        /\ target_fig = paint_figure(LastCall.before, LIGHT_COLORS)
        /\ ~is_dark_mode(target_fig)

\* the numbers of a list, tuple or array, whatever holds them
RECURSIVE Content(_)
Content(x) ==
    IF x.k \in {"list", "arr"} THEN [i \in 1..Len(x.v) |-> Content(x.v[i])]
    ELSE x

\* value is the dictionary with exactly these keys
HasKeys(value, keys) == value.k = "dict" /\ DOMAIN value.v = keys

IsSequence(data) == data.k \in {"list", "arr"}

\* C26: _normalize_data returns a dictionary unchanged for any plot type; it
\* maps a list, tuple or array to {'y': data} for 'line' and to
\* {'heights': data} for 'bar', and a 2-element list or tuple to
\* {'x': data[0], 'y': data[1]} for 'scatter'; everything else raises
\* ValueError.
C26_NormalizeData ==
    call.pc = "done" =>
        CASE call.data.k = "dict" -> call.value = call.data
          [] call.data.k # "dict" /\ call.plot_type = "line" /\ IsSequence(call.data) ->
                /\ HasKeys(call.value, {"y"})
                /\ Content(call.value.v["y"]) = Content(call.data)
          [] call.data.k # "dict" /\ call.plot_type = "bar" /\ IsSequence(call.data) ->
                /\ HasKeys(call.value, {"heights"})
                /\ Content(call.value.v["heights"]) = Content(call.data)
          [] /\ call.plot_type = "scatter" /\ call.data.k = "list"
             /\ Len(call.data.v) = 2 ->
                /\ HasKeys(call.value, {"x", "y"})
                /\ Content(call.value.v["x"]) = Content(call.data.v[1])
                /\ Content(call.value.v["y"]) = Content(call.data.v[2])
          [] OTHER -> call.value = Err("ValueError")

\* a tuple of two lists normalized for a scatter plot
C26_Witness ==
    /\ call.pc = "done"
    /\ call.plot_type = "scatter"
    /\ call.data = List(<<L3(1, 2, 3), L3(4, 5, 6)>>)
    /\ call.value = Dict([key \in {"x", "y"} |->
                            IF key = "x" THEN A3(1, 2, 3) ELSE A3(4, 5, 6)])

\* the properties of a from or to state that a frame renders
Rendered(state) ==
    IF desc.func = "transition_plot_state" THEN {"title", "lines"}
    ELSE IF desc.impl = "lib" THEN DOMAIN state.v
    ELSE sa_plotted(desc.plot_type) \cap DOMAIN state.v

\* a line of a frame is the line of the state: data, line style and marker
ShowsLine(shown, line) ==
    /\ Content(shown.v["ydata"]) = Content(line.v["ydata"])
    /\ shown.v["linestyle"] = line.v["linestyle"]
    /\ shown.v["marker"] = line.v["marker"]

\* the frame renders every property of the state at the state's value
Shows(frame, state) ==
    /\ frame.data.k = "dict"
    /\ \A key \in Rendered(state) :
          /\ Has(frame.data.v, key)
          /\ IF key = "lines"
             THEN /\ Len(frame.data.v[key].v) = Len(state.v[key].v)
                  /\ \A j \in 1..Len(state.v[key].v) :
                        ShowsLine(frame.data.v[key].v[j], state.v[key].v[j])
             ELSE Content(frame.data.v[key]) = Content(state.v[key])

\* C27: with more than one frame and a built-in easing, the first frame
\* renders every property at its from value and the last frame renders every
\* property at its to value (smooth_transition of both files, and
\* transition_plot_state of transitions.py; from and to states with the same
\* properties).
C27_EndFrames ==
    (/\ PositiveDescriptor /\ Created
     /\ desc.form \in {"dict", "seq", "figure"}
     /\ session.num_frames > 1
     /\ session.easing_func.kind = "builtin"
     /\ ~(desc.impl = "sa" /\ desc.func = "transition_plot_state")
     /\ last.idx >= 0) =>
        /\ last.idx = 0 => Shows(last, session.from_data)
        /\ last.idx = session.num_frames - 1 => Shows(last, session.to_data)

\* the number of elements one frame of the session plots
ElementCount ==
    IF IsErr(last.data) THEN 0
    ELSE IF desc.plot_type = "bar" THEN Len(session.from_data.v["heights"].v)
    ELSE 1

Other(impl) == IF impl = "lib" THEN "sa" ELSE "lib"

\* the title the other implementation shows at the frame just delivered
OtherTitle ==
    ShownTitle(Other(desc.impl), session.from_data, session.to_data, last.progress,
               ApplyEasing(Other(desc.impl), get_easing(Other(desc.impl), desc.easing),
                           last.progress))

\* C29: for the same number of frames and the same easing name, every frame
\* of transition_plot_state shows the same title in both implementations.
C29_SameTitle ==
    (/\ desc.func = "transition_plot_state"
     /\ PositiveDescriptor /\ Created
     /\ desc.easing.kind = "name" /\ desc.easing.name \in SaEasingNames
     /\ last.idx >= 0 /\ last.data.k = "dict") =>
        last.data.v["title"] = OtherTitle

====
